---- MODULE Spec2Model ----
(***************************************************************************)
(* android_logger: the PlatformLogWriter (src/src/platform_log_writer.rs), *)
(* the fixed-capacity writer that splits a formatted log record into       *)
(* NUL-terminated messages of bounded length.                              *)
(*                                                                         *)
(* Bytes are modelled by short strings: "a" is an ordinary byte,            *)
(* NL is b'\n', NUL is b'\0', SP is b' '.  UNINIT marks a slot of the      *)
(* MaybeUninit buffer that has never been written: a read of it is         *)
(* undefined behaviour and may yield any byte, so UNINIT in a message      *)
(* stands for every outcome at once and never equals a written byte.       *)
(***************************************************************************)
EXTENDS Integers, Sequences, FiniteSets, TLC

\* Capacity of the message buffer.  The source sets 4000 (src/src/lib.rs:184);
\* the algorithm is parametric in it and the model runs it scaled down.
LOGGING_MSG_MAX_LEN == 3

\* Longest fragment handed to one write_str call.
MaxFrag == 4

\* Most bytes written to one writer.
MaxTotal == 5

NL == "\n"
NUL == "\\0"
SP == " "
UNINIT == "?"

\* Bytes a caller may pass in a fragment (&str as raw bytes).
InputByte == {"a", NL, NUL}

Level == {"Warn", "Info"}
BufId == {"None", "Main"}
Tag == {"tag", "app"}

NoPanic == "none"

VARIABLES
    machine,    \* [self: the PlatformLogWriter, sink: android_log calls, panic]
    written,    \* history: every byte passed to write_str since construction
    flushes,    \* history: the calls of flush and of temporal_flush made by the
                \* owner since construction, counted up to 2 (2: two or more)
    last,       \* history: the last operation, its pre-state and its steps
    global,     \* the process-wide state: ANDROID_LOGGER, the logger registered
                \* with the log crate, and the log crate's max level
    threads     \* the threads that are inside init_once: for each its config
                \* and its position in the function

vars == <<machine, written, flushes, last, global, threads>>

----------------------------------------------------------------------------
\* Helpers on byte strings.

Min(x, y) == IF x <= y THEN x ELSE y

\* buffer[from..to) as a sequence
Slice(buffer, from, to) == [k \in 1..(to - from) |-> buffer[from + k - 1]]

\* the fragments of length at most n
Fragments(n) == UNION {[1..k -> InputByte] : k \in 0..n}

RECURSIVE Concat(_)
Concat(ss) == IF ss = <<>> THEN <<>> ELSE Head(ss) \o Concat(Tail(ss))

\* the bodies of the messages handed to android_log, in emission order
Bodies(sink) == [k \in 1..Len(sink) |-> sink[k].msg]

\* a byte string with every NUL replaced by a space
Substituted(s) == [k \in 1..Len(s) |-> IF s[k] = NUL THEN SP ELSE s[k]]

----------------------------------------------------------------------------
\* The program.

\* uninit_array(): LOGGING_MSG_MAX_LEN + 1 uninitialised slots
uninit_array == [k \in 0..LOGGING_MSG_MAX_LEN |-> UNINIT]

\* PlatformLogWriter::new (the non-android build keeps the Level as priority)
new(buf_id, level, tag) ==
    [priority |-> level,
     buf_id |-> buf_id,
     len |-> 0,
     last_newline_index |-> 0,
     tag |-> tag,
     buffer |-> uninit_array]

\* android_log: one call of the platform's log primitive
android_log(m, buf_id, prio, tag, msg) ==
    [m EXCEPT !.sink = Append(@, [buf_id |-> buf_id, priority |-> prio,
                                  tag |-> tag, msg |-> msg])]

\* CStr::from_bytes_with_nul: Ok iff the only NUL is the last byte
from_bytes_with_nul_ok(bytes) ==
    /\ Len(bytes) > 0
    /\ bytes[Len(bytes)] = NUL
    /\ \A k \in 1..(Len(bytes) - 1) : bytes[k] # NUL

\* Variant of output_specified_len with the slice bound off by one: the
\* message takes the byte at position len too.
output_specified_len_extra_byte(m, len) ==
    IF len > LOGGING_MSG_MAX_LEN
    THEN [m EXCEPT !.panic = "len is out of bounds"]
    ELSE android_log(m, m.self.buf_id, m.self.priority, m.self.tag,
                     Slice(m.self.buffer, 0, len + 1))

\* Variant of output_specified_len that emits to the default channel, not the
\* one the writer was constructed with.
output_specified_len_default_channel(m, len) ==
    IF len > LOGGING_MSG_MAX_LEN
    THEN [m EXCEPT !.panic = "len is out of bounds"]
    ELSE LET last_byte == m.self.buffer[len]
             swapped == [m.self.buffer EXCEPT ![len] = NUL]
             initialized == Slice(swapped, 0, len + 1)
         IN  IF ~from_bytes_with_nul_ok(initialized)
             THEN [m EXCEPT !.self.buffer = swapped,
                            !.panic = "nul terminator was placed at len"]
             ELSE LET msg == SubSeq(initialized, 1, len)
                      logged == android_log(m, "None", m.self.priority,
                                            m.self.tag, msg)
                  IN  [logged EXCEPT !.self.buffer = [swapped EXCEPT ![len] = last_byte]]

\* Variant of output_specified_len that leaves the terminator in the buffer
\* instead of putting the swapped byte back.
output_specified_len_no_restore(m, len) ==
    IF len > LOGGING_MSG_MAX_LEN
    THEN [m EXCEPT !.panic = "len is out of bounds"]
    ELSE LET swapped == [m.self.buffer EXCEPT ![len] = NUL]
             initialized == Slice(swapped, 0, len + 1)
         IN  IF ~from_bytes_with_nul_ok(initialized)
             THEN [m EXCEPT !.self.buffer = swapped,
                            !.panic = "nul terminator was placed at len"]
             ELSE LET msg == SubSeq(initialized, 1, len)
                      logged == android_log(m, m.self.buf_id, m.self.priority,
                                            m.self.tag, msg)
                  IN  [logged EXCEPT !.self.buffer = swapped]

\* PlatformLogWriter::output_specified_len
output_specified_len(m, len) ==
    IF len > LOGGING_MSG_MAX_LEN
    THEN [m EXCEPT !.panic = "len is out of bounds"]
    ELSE LET last_byte == m.self.buffer[len]
             swapped == [m.self.buffer EXCEPT ![len] = NUL]
             initialized == Slice(swapped, 0, len + 1)
         IN  IF ~from_bytes_with_nul_ok(initialized)
             THEN [m EXCEPT !.self.buffer = swapped,
                            !.panic = "nul terminator was placed at len"]
             ELSE LET msg == SubSeq(initialized, 1, len)
                      logged == android_log(m, m.self.buf_id, m.self.priority,
                                            m.self.tag, msg)
                  IN  [logged EXCEPT !.self.buffer = [swapped EXCEPT ![len] = last_byte]]

\* Variant of copy_bytes_to_start that copies byte by byte from the last to
\* the first: where the ranges overlap it reads bytes it has already written.
copy_bytes_to_start_backward(m, index, len) ==
    [m EXCEPT !.self.buffer =
        [k \in 0..LOGGING_MSG_MAX_LEN |->
            IF k < len /\ index > 0
            THEN LET hops == CHOOSE j \in 1..(len + 1) :
                                 /\ k + j * index >= len
                                 /\ k + (j - 1) * index < len
                 IN  m.self.buffer[k + hops * index]
            ELSE m.self.buffer[k]]]

\* PlatformLogWriter::copy_bytes_to_start (ptr::copy has memmove semantics)
copy_bytes_to_start(m, index, len) ==
    [m EXCEPT !.self.buffer =
        [k \in 0..LOGGING_MSG_MAX_LEN |->
            IF k < len THEN m.self.buffer[index + k] ELSE m.self.buffer[k]]]

\* Variant of temporal_flush that cuts after the newline: it emits
\* buffer[0..=i] and keeps buffer[i+1..len).
temporal_flush_past_newline(m) ==
    LET total_len == m.self.len IN
    IF total_len = 0 THEN m
    ELSE IF m.self.last_newline_index > 0
    THEN LET copy_from_index == m.self.last_newline_index + 1
             remaining_chunk_len == total_len - copy_from_index
             m1 == output_specified_len(m, copy_from_index)
             m2 == copy_bytes_to_start(m1, copy_from_index, remaining_chunk_len)
         IN  [m2 EXCEPT !.self.len = remaining_chunk_len,
                        !.self.last_newline_index = 0]
    ELSE LET m1 == output_specified_len(m, total_len)
         IN  [m1 EXCEPT !.self.len = 0, !.self.last_newline_index = 0]

\* Variant of temporal_flush that emits buffer[0..i) and keeps
\* buffer[i+1..len): the newline is in neither.
temporal_flush_drop_newline(m) ==
    LET total_len == m.self.len IN
    IF total_len = 0 THEN m
    ELSE IF m.self.last_newline_index > 0
    THEN LET copy_from_index == m.self.last_newline_index
             remaining_chunk_len == total_len - copy_from_index - 1
             m1 == output_specified_len(m, copy_from_index)
             m2 == copy_bytes_to_start(m1, copy_from_index + 1, remaining_chunk_len)
         IN  [m2 EXCEPT !.self.len = remaining_chunk_len,
                        !.self.last_newline_index = 0]
    ELSE LET m1 == output_specified_len(m, total_len)
         IN  [m1 EXCEPT !.self.len = 0, !.self.last_newline_index = 0]

\* Variant of temporal_flush without the final reset of last_newline_index.
temporal_flush_keep_index(m) ==
    LET total_len == m.self.len IN
    IF total_len = 0 THEN m
    ELSE IF m.self.last_newline_index > 0
    THEN LET copy_from_index == m.self.last_newline_index
             remaining_chunk_len == total_len - copy_from_index
             m1 == output_specified_len(m, copy_from_index)
             m2 == copy_bytes_to_start(m1, copy_from_index, remaining_chunk_len)
         IN  [m2 EXCEPT !.self.len = remaining_chunk_len]
    ELSE LET m1 == output_specified_len(m, total_len)
         IN  [m1 EXCEPT !.self.len = 0]

\* Variant of temporal_flush that ignores the recorded newline and always
\* emits the whole buffer.
temporal_flush_whole(m) ==
    LET total_len == m.self.len IN
    IF total_len = 0 THEN m
    ELSE LET m1 == output_specified_len(m, total_len)
         IN  [m1 EXCEPT !.self.len = 0, !.self.last_newline_index = 0]

\* Variant of temporal_flush that takes a newline at index 0 for a line end:
\* it emits the newline alone and keeps the rest.
temporal_flush_cut_at_zero(m) ==
    LET total_len == m.self.len IN
    IF total_len = 0 THEN m
    ELSE IF m.self.last_newline_index > 0 \/ (m.self.buffer[0] = NL /\ total_len > 1)
    THEN LET copy_from_index == IF m.self.last_newline_index > 0
                                THEN m.self.last_newline_index ELSE 1
             remaining_chunk_len == total_len - copy_from_index
             m1 == output_specified_len(m, copy_from_index)
             m2 == copy_bytes_to_start(m1, copy_from_index, remaining_chunk_len)
         IN  [m2 EXCEPT !.self.len = remaining_chunk_len,
                        !.self.last_newline_index = 0]
    ELSE LET m1 == output_specified_len(m, total_len)
         IN  [m1 EXCEPT !.self.len = 0, !.self.last_newline_index = 0]

\* PlatformLogWriter::temporal_flush
temporal_flush(m) ==
    LET total_len == m.self.len IN
    IF total_len = 0 THEN m
    ELSE IF m.self.last_newline_index > 0
    THEN LET copy_from_index == m.self.last_newline_index
             remaining_chunk_len == total_len - copy_from_index
             m1 == output_specified_len(m, copy_from_index)
         IN  IF m1.panic # NoPanic THEN m1
             ELSE LET m2 == copy_bytes_to_start(m1, copy_from_index, remaining_chunk_len)
                  IN  [m2 EXCEPT !.self.len = remaining_chunk_len,
                                 !.self.last_newline_index = 0]
    ELSE LET m1 == output_specified_len(m, total_len)
         IN  IF m1.panic # NoPanic THEN m1
             ELSE [m1 EXCEPT !.self.len = 0, !.self.last_newline_index = 0]

\* Variant of flush that stops at the recorded newline, as temporal_flush does.
flush_to_newline(m) == temporal_flush(m)

\* Variant of flush without the early return on an empty buffer.
flush_unguarded(m) ==
    LET m1 == output_specified_len(m, m.self.len)
    IN  [m1 EXCEPT !.self.len = 0, !.self.last_newline_index = 0]

\* PlatformLogWriter::flush
flush(m) ==
    LET total_len == m.self.len IN
    IF total_len = 0 THEN m
    ELSE LET m1 == output_specified_len(m, total_len)
         IN  IF m1.panic # NoPanic THEN m1
             ELSE [m1 EXCEPT !.self.len = 0, !.self.last_newline_index = 0]

\* Variant of write_fill that copies every byte verbatim, a NUL included.
write_fill_verbatim(m, incoming) ==
    LET len == m.self.len
        n == Min(LOGGING_MSG_MAX_LEN - len, Len(incoming))
        newlines == {i \in 0..(n - 1) : incoming[i + 1] = NL}
        last_newline == CHOOSE i \in newlines : \A j \in newlines : j <= i
    IN  [m EXCEPT
            !.self.buffer =
                [k \in 0..LOGGING_MSG_MAX_LEN |->
                    IF k >= len /\ k < len + n
                    THEN incoming[k - len + 1]
                    ELSE m.self.buffer[k]],
            !.self.last_newline_index =
                IF newlines # {} THEN len + last_newline ELSE @]

\* Variant of write_fill that records the newline by its index in the
\* fragment, not in the buffer.
write_fill_fragment_relative(m, incoming) ==
    LET len == m.self.len
        n == Min(LOGGING_MSG_MAX_LEN - len, Len(incoming))
        newlines == {i \in 0..(n - 1) : incoming[i + 1] = NL}
        last_newline == CHOOSE i \in newlines : \A j \in newlines : j <= i
    IN  [m EXCEPT
            !.self.buffer =
                [k \in 0..LOGGING_MSG_MAX_LEN |->
                    IF k >= len /\ k < len + n
                    THEN IF incoming[k - len + 1] = NUL THEN SP
                         ELSE incoming[k - len + 1]
                    ELSE m.self.buffer[k]],
            !.self.last_newline_index =
                IF newlines # {} THEN last_newline ELSE @]

\* write_str, lines 146-168: copy what fits into buffer[len..LOGGING_MSG_MAX_LEN),
\* a NUL as a space, and record the index of the last newline copied
write_fill(m, incoming) ==
    LET len == m.self.len
        n == Min(LOGGING_MSG_MAX_LEN - len, Len(incoming))
        newlines == {i \in 0..(n - 1) : incoming[i + 1] = NL}
        last_newline == CHOOSE i \in newlines : \A j \in newlines : j <= i
    IN  [m EXCEPT
            !.self.buffer =
                [k \in 0..LOGGING_MSG_MAX_LEN |->
                    IF k >= len /\ k < len + n
                    THEN IF incoming[k - len + 1] = NUL THEN SP
                         ELSE incoming[k - len + 1]
                    ELSE m.self.buffer[k]],
            !.self.last_newline_index =
                IF newlines # {} THEN len + last_newline ELSE @]

\* Variant of write_iteration that accepts one byte more than the capacity.
write_iteration_off_by_one(m, incoming) ==
    LET len == m.self.len
        new_len == len + Len(incoming)
        filled == write_fill(m, incoming)
    IN  IF new_len <= LOGGING_MSG_MAX_LEN + 1
        THEN LET m1 == [filled EXCEPT !.self.len = new_len]
             IN  [m |-> m1, written_len |-> new_len - len,
                  overflow |-> FALSE, full |-> m1]
        ELSE LET m1 == [filled EXCEPT !.self.len = LOGGING_MSG_MAX_LEN]
             IN  [m |-> temporal_flush(m1),
                  written_len |-> LOGGING_MSG_MAX_LEN - len,
                  overflow |-> TRUE, full |-> m1]

\* Variant of write_iteration that takes the overflow path already when the
\* fragment fills the buffer exactly (< for <=).
write_iteration_strict(m, incoming) ==
    LET len == m.self.len
        new_len == len + Len(incoming)
        filled == write_fill(m, incoming)
    IN  IF new_len < LOGGING_MSG_MAX_LEN
        THEN LET m1 == [filled EXCEPT !.self.len = new_len]
             IN  [m |-> m1, written_len |-> new_len - len,
                  overflow |-> FALSE, full |-> m1]
        ELSE LET m1 == [filled EXCEPT !.self.len = LOGGING_MSG_MAX_LEN]
             IN  [m |-> temporal_flush(m1),
                  written_len |-> LOGGING_MSG_MAX_LEN - len,
                  overflow |-> TRUE, full |-> m1]

\* Variant of write_iteration that, on overflow, counts one byte more as
\* written than it stored.
write_iteration_skips_byte(m, incoming) ==
    LET len == m.self.len
        new_len == len + Len(incoming)
        filled == write_fill(m, incoming)
    IN  IF new_len <= LOGGING_MSG_MAX_LEN
        THEN LET m1 == [filled EXCEPT !.self.len = new_len]
             IN  [m |-> m1, written_len |-> new_len - len,
                  overflow |-> FALSE, full |-> m1]
        ELSE LET m1 == [filled EXCEPT !.self.len = LOGGING_MSG_MAX_LEN]
             IN  [m |-> temporal_flush(m1),
                  written_len |-> LOGGING_MSG_MAX_LEN - len + 1,
                  overflow |-> TRUE, full |-> m1]

\* write_str, one pass of the while loop (lines 146-183).  The result carries
\* the machine after the pass, the number of fragment bytes consumed and, as
\* history, whether the pass overflowed and the machine right before the
\* call of temporal_flush.
write_iteration(m, incoming) ==
    LET len == m.self.len
        new_len == len + Len(incoming)
        filled == write_fill(m, incoming)
    IN  IF new_len <= LOGGING_MSG_MAX_LEN
        THEN LET m1 == [filled EXCEPT !.self.len = new_len]
             IN  [m |-> m1, written_len |-> new_len - len,
                  overflow |-> FALSE, full |-> m1]
        ELSE LET m1 == [filled EXCEPT !.self.len = LOGGING_MSG_MAX_LEN]
             IN  [m |-> temporal_flush(m1),
                  written_len |-> LOGGING_MSG_MAX_LEN - len,
                  overflow |-> TRUE, full |-> m1]

\* write_str, the while loop; iters collects the passes as history
RECURSIVE write_loop(_, _, _)
write_loop(m, incoming_bytes, iters) ==
    IF incoming_bytes = <<>> \/ m.panic # NoPanic
    THEN [m |-> m, iters |-> iters]
    ELSE LET r == write_iteration(m, incoming_bytes)
         IN  write_loop(r.m,
                        SubSeq(incoming_bytes, r.written_len + 1, Len(incoming_bytes)),
                        Append(iters, [before |-> m,
                                       incoming |-> incoming_bytes,
                                       written_len |-> r.written_len,
                                       overflow |-> r.overflow,
                                       full |-> r.full,
                                       after |-> r.m]))

\* <PlatformLogWriter as fmt::Write>::write_str
write_str(m, s) == write_loop(m, s, <<>>)

----------------------------------------------------------------------------
\* The state machine: one writer, constructed per record, written to and
\* flushed by its owner.

Op(name, pre, arg, iters) == [op |-> name, pre |-> pre, arg |-> arg, iters |-> iters]

Fresh(buf_id, level, tag) ==
    [self |-> new(buf_id, level, tag), sink |-> <<>>, panic |-> NoPanic]

\* static ANDROID_LOGGER: OnceLock<AndroidLogger> = OnceLock::new()
NoLogger == [some |-> FALSE]

\* the process at its start: ANDROID_LOGGER is empty, no logger is registered
\* with the log crate, and log::max_level() is Off
FreshGlobal == [android_logger |-> NoLogger, logger |-> "None", max_level |-> "Off"]

\* no thread is inside init_once
NoThreads == <<>>

Init ==
    /\ \E buf_id \in BufId, level \in Level, tag \in Tag :
          /\ machine = Fresh(buf_id, level, tag)
          /\ last = Op("new", Fresh(buf_id, level, tag), <<>>, <<>>)
    /\ written = <<>>
    /\ flushes = 0
    /\ global = FreshGlobal
    /\ threads = NoThreads

\* a new record: the old writer is dropped and a new one is constructed
New ==
    \E buf_id \in BufId, level \in Level, tag \in Tag :
        /\ machine' = Fresh(buf_id, level, tag)
        /\ written' = <<>>
        /\ flushes' = 0
        /\ last' = Op("new", Fresh(buf_id, level, tag), <<>>, <<>>)
        /\ UNCHANGED <<global, threads>>

\* writer.write_str(s)
WriteStr ==
    \E s \in Fragments(Min(MaxFrag, MaxTotal - Len(written))) :
        /\ machine.panic = NoPanic
        /\ LET r == write_str(machine, s)
           IN  /\ machine' = r.m
               /\ last' = Op("write_str", machine, s, r.iters)
        /\ written' = written \o s
        /\ UNCHANGED <<flushes, global, threads>>

\* writer.flush()
Flush ==
    /\ machine.panic = NoPanic
    /\ machine' = flush(machine)
    /\ last' = Op("flush", machine, <<>>, <<>>)
    /\ flushes' = Min(flushes + 1, 2)
    /\ UNCHANGED <<written, global, threads>>

\* writer.temporal_flush() called on its own, as the unit tests of the
\* crate call it (tests::temporal_flush)
TemporalFlush ==
    /\ machine.panic = NoPanic
    /\ machine' = temporal_flush(machine)
    /\ last' = Op("temporal_flush", machine, <<>>, <<>>)
    /\ flushes' = Min(flushes + 1, 2)
    /\ UNCHANGED <<written, global, threads>>

Next == New \/ WriteStr \/ Flush

Spec == Init /\ [][Next]_vars

NextUnit == New \/ WriteStr \/ Flush \/ TemporalFlush

\* the writer as the crate's unit tests drive it
SpecUnit == Init /\ [][NextUnit]_vars

----------------------------------------------------------------------------
\* The tag of a record (src/src/lib.rs): AndroidLogger::log builds the tag
\* the writer borrows, then formats the record into the writer.

\* Maximum length of a tag that does not require allocation.
LOGGING_TAG_MAX_LEN == 127

\* Tags are tried at lengths 0..MaxTagShort and at lengths from
\* LOGGING_TAG_MAX_LEN - MaxTagOver to LOGGING_TAG_MAX_LEN + MaxTagOver.
MaxTagShort == 1
MaxTagOver == 2

TagLen ==
    (0..MaxTagShort)
    \cup ((LOGGING_TAG_MAX_LEN - MaxTagOver)..(LOGGING_TAG_MAX_LEN + MaxTagOver))

\* a tag of n bytes whose bytes depend on their position
PlainTag(n) == [i \in 1..n |-> <<"a", "b", "c">>[(i % 3) + 1]]

\* the tags a caller may pass as bytes: NUL-free ones, and ones with a NUL
\* as their first or as their last byte
TagInput ==
    {PlainTag(n) : n \in TagLen}
    \cup {[PlainTag(n) EXCEPT ![1] = NUL] : n \in TagLen \ {0}}
    \cup {[PlainTag(n) EXCEPT ![n] = NUL] : n \in TagLen \ {0}}

NulFree(tag) == \A k \in 1..Len(tag) : tag[k] # NUL

\* [MaybeUninit<u8>; LOGGING_TAG_MAX_LEN + 1] = uninit_array()
uninit_tag_bytes == [k \in 0..LOGGING_TAG_MAX_LEN |-> UNINIT]

\* Variant of fill_tag_bytes that takes LOGGING_TAG_MAX_LEN bytes of a long
\* tag before the marker.
fill_tag_bytes_take_limit(storage, tag) ==
    LET chained == IF Len(tag) > LOGGING_TAG_MAX_LEN
                   THEN SubSeq(tag, 1, LOGGING_TAG_MAX_LEN) \o <<".", ".", NUL>>
                   ELSE tag \o <<NUL>>
        n == Min(Len(chained), LOGGING_TAG_MAX_LEN + 1)
        filled == [k \in 0..LOGGING_TAG_MAX_LEN |->
                      IF k < n THEN chained[k + 1] ELSE storage[k]]
        initialized == IF Len(tag) > LOGGING_TAG_MAX_LEN
                       THEN Slice(filled, 0, LOGGING_TAG_MAX_LEN + 1)
                       ELSE Slice(filled, 0, Len(tag) + 1)
    IN  IF from_bytes_with_nul_ok(initialized)
        THEN [storage |-> filled, cstr |-> initialized, panic |-> NoPanic]
        ELSE [storage |-> filled, cstr |-> <<>>,
              panic |-> "Unreachable: we wrote a nul terminator"]

\* fill_tag_bytes (lib.rs 270-295, arrays.rs 21-48): the chained bytes are
\* zipped with the storage, so at most LOGGING_TAG_MAX_LEN + 1 are written;
\* cstr is the CStr returned, its terminator included
fill_tag_bytes(storage, tag) ==
    LET chained == IF Len(tag) > LOGGING_TAG_MAX_LEN
                   THEN SubSeq(tag, 1, LOGGING_TAG_MAX_LEN - 2) \o <<".", ".", NUL>>
                   ELSE tag \o <<NUL>>
        n == Min(Len(chained), LOGGING_TAG_MAX_LEN + 1)
        filled == [k \in 0..LOGGING_TAG_MAX_LEN |->
                      IF k < n THEN chained[k + 1] ELSE storage[k]]
        initialized == IF Len(tag) > LOGGING_TAG_MAX_LEN
                       THEN Slice(filled, 0, LOGGING_TAG_MAX_LEN + 1)
                       ELSE Slice(filled, 0, Len(tag) + 1)
    IN  IF from_bytes_with_nul_ok(initialized)
        THEN [storage |-> filled, cstr |-> initialized, panic |-> NoPanic]
        ELSE [storage |-> filled, cstr |-> <<>>,
              panic |-> "Unreachable: we wrote a nul terminator"]

\* CStr::to_bytes: the bytes before the terminator
to_bytes(cstr) == SubSeq(cstr, 1, Len(cstr) - 1)

\* Variant of log_tag that sends every tag through fill_tag_bytes.
log_tag_always_filled(tag) ==
    LET r == fill_tag_bytes(uninit_tag_bytes, tag)
    IN  IF r.panic # NoPanic
        THEN [tag |-> <<>>, allocated |-> FALSE, panic |-> r.panic]
        ELSE [tag |-> to_bytes(r.cstr), allocated |-> FALSE, panic |-> NoPanic]

\* AndroidLogger::log, lines 227-239: the &CStr handed to the writer, built
\* in the stack buffer when the tag fits it, else in an allocated CString
log_tag(tag) ==
    IF Len(tag) < LOGGING_TAG_MAX_LEN + 1
    THEN LET r == fill_tag_bytes(uninit_tag_bytes, tag)
         IN  IF r.panic # NoPanic
             THEN [tag |-> <<>>, allocated |-> FALSE, panic |-> r.panic]
             ELSE [tag |-> to_bytes(r.cstr), allocated |-> FALSE, panic |-> NoPanic]
    ELSE IF ~NulFree(tag)
         THEN [tag |-> <<>>, allocated |-> TRUE,
               panic |-> "config.tag or record.module_path() should never contain nullbytes"]
         ELSE [tag |-> tag, allocated |-> TRUE, panic |-> NoPanic]

\* Config::tag: None, or Some of a CString (Config::with_tag, config.rs
\* 139-140, refuses a tag with a NUL)
NoTag == [some |-> FALSE]
SomeTag(t) == [some |-> TRUE, value |-> t]
CustomTag == {NoTag} \cup {SomeTag(t) : t \in {u \in TagInput : NulFree(u)}}

\* Record::module_path: any string; tried short when a custom tag is set,
\* as it then goes to the message only
ModulePath(custom_tag) ==
    IF custom_tag.some THEN {t \in TagInput : Len(t) <= 1 /\ NulFree(t)}
    ELSE TagInput

\* Record::args as formatted: one newline, or one byte more than a message
\* holds
RecordArgs ==
    {<<NL>>, [k \in 1..(LOGGING_MSG_MAX_LEN + 1) |-> "a"]}

\* log::LevelFilter and log::Level, with their numbers (Level <= LevelFilter
\* compares them)
LevelFilter == {"Off", "Error", "Warn", "Info", "Debug", "Trace"}
RecordLevel == LevelFilter \ {"Off"}

as_usize(level) ==
    CASE level = "Off" -> 0
      [] level = "Error" -> 1
      [] level = "Warn" -> 2
      [] level = "Info" -> 3
      [] level = "Debug" -> 4
      [] level = "Trace" -> 5

\* Config::log_level: None, or Some(level) after with_max_level
NoLevel == [some |-> FALSE]
SomeLevel(level) == [some |-> TRUE, value |-> level]

\* Config::filter: None, or Some of an env_filter::Filter, here one with a
\* single directive for all modules, as the tests build it
NoFilter == [some |-> FALSE]
SomeFilter(level) == [some |-> TRUE, value |-> level]

\* Config::custom_format: None, or Some of a caller's function, which writes
\* the record's arguments or nothing and returns Ok or Err
NoFormat == [some |-> FALSE]
SomeFormat(writes, ok) == [some |-> TRUE, writes |-> writes, ok |-> ok]

\* struct Config
MakeConfig(log_level, buf_id, filter, tag, custom_format) ==
    [log_level |-> log_level, buf_id |-> buf_id, filter |-> filter,
     tag |-> tag, custom_format |-> custom_format]

\* Config::default()
DefaultConfig == MakeConfig(NoLevel, "None", NoFilter, NoTag, NoFormat)

\* the parts of a log::Record that log reads
MakeRecord(level, module_path, args) ==
    [level |-> level, module_path |-> module_path, args |-> args]

\* Variant of enabled with a strict comparison.
enabled_strict(config, max_level, level) ==
    as_usize(level) < as_usize(IF config.log_level.some
                               THEN config.log_level.value ELSE max_level)

\* AndroidLogger::enabled, lines 196-200
enabled(config, max_level, level) ==
    as_usize(level) <= as_usize(IF config.log_level.some
                                THEN config.log_level.value ELSE max_level)

\* Config::filter_matches, lines 334-340
filter_matches(config, record) ==
    IF config.filter.some
    THEN as_usize(record.level) <= as_usize(config.filter.value)
    ELSE TRUE

\* Variant of log_fragments that looks at the custom tag before the custom
\* format.
log_fragments_tag_first(custom_tag, custom_format, module_path, args) ==
    IF custom_tag.some THEN <<module_path, <<":", SP>>, args>>
    ELSE IF custom_format.some
    THEN (IF custom_format.writes THEN <<args>> ELSE <<>>)
    ELSE <<args>>

\* lines 247-256: the fragments handed to write_str, by the custom format
\* when there is one, else by fmt::write
log_fragments(custom_tag, custom_format, module_path, args) ==
    IF custom_format.some
    THEN (IF custom_format.writes THEN <<args>> ELSE <<>>)
    ELSE IF custom_tag.some THEN <<module_path, <<":", SP>>, args>>
    ELSE <<args>>

\* fmt::write: write_str for each fragment, stopping at a panic
RECURSIVE write_fragments(_, _)
write_fragments(m, fragments) ==
    IF fragments = <<>> \/ m.panic # NoPanic THEN m
    ELSE write_fragments(write_str(m, Head(fragments)).m, Tail(fragments))

\* lines 247-256: the match that formats the record into the writer; result
\* is the fmt::Result it yields (write_str never fails, so fmt::write is Ok),
\* formatted the number of calls of the custom format
log_format(writer, config, record) ==
    [m |-> write_fragments(writer, log_fragments(config.tag, config.custom_format,
                                                 record.module_path, record.args)),
     result |-> IF config.custom_format.some /\ ~config.custom_format.ok
                THEN "Err" ELSE "Ok",
     formatted |-> IF config.custom_format.some THEN 1 ELSE 0]

\* the tag built for a record that log returned early on
NoTagBuilt == [tag |-> <<>>, allocated |-> FALSE, panic |-> NoPanic]

\* Variant of log that returns the error of the formatter before the flush.
log_returns_on_error(m, max_level, config, record) ==
    IF ~enabled(config, max_level, record.level) \/ ~filter_matches(config, record)
    THEN [m |-> m, ret |-> NoTagBuilt, passed |-> FALSE, formatted |-> 0,
          result |-> "None"]
    ELSE LET tag == IF config.tag.some THEN config.tag.value ELSE record.module_path
             built == log_tag(tag)
         IN  IF built.panic # NoPanic
             THEN [m |-> [m EXCEPT !.panic = built.panic], ret |-> built,
                   passed |-> TRUE, formatted |-> 0, result |-> "None"]
             ELSE LET writer == Fresh(config.buf_id, record.level, built.tag)
                      f == log_format(writer, config, record)
                  IN  [m |-> IF f.result = "Err" THEN f.m ELSE flush(f.m),
                       ret |-> built, passed |-> TRUE,
                       formatted |-> f.formatted, result |-> f.result]

\* Variant of log without the check of the filter.
log_ignores_filter(m, max_level, config, record) ==
    IF ~enabled(config, max_level, record.level)
    THEN [m |-> m, ret |-> NoTagBuilt, passed |-> FALSE, formatted |-> 0,
          result |-> "None"]
    ELSE LET tag == IF config.tag.some THEN config.tag.value ELSE record.module_path
             built == log_tag(tag)
         IN  IF built.panic # NoPanic
             THEN [m |-> [m EXCEPT !.panic = built.panic], ret |-> built,
                   passed |-> TRUE, formatted |-> 0, result |-> "None"]
             ELSE LET writer == Fresh(config.buf_id, record.level, built.tag)
                      f == log_format(writer, config, record)
                  IN  [m |-> flush(f.m), ret |-> built, passed |-> TRUE,
                       formatted |-> f.formatted, result |-> f.result]

\* AndroidLogger::log, lines 202-260, of a logger with this config, with
\* log::max_level() as given.  ret is the tag built at lines 227-239; passed
\* tells that the record passed the checks at lines 205-213; the result of
\* the formatting is dropped at line 247 (let _).
log(m, max_level, config, record) ==
    IF ~enabled(config, max_level, record.level)
    THEN [m |-> m, ret |-> NoTagBuilt, passed |-> FALSE, formatted |-> 0,
          result |-> "None"]
    ELSE IF ~filter_matches(config, record)
    THEN [m |-> m, ret |-> NoTagBuilt, passed |-> FALSE, formatted |-> 0,
          result |-> "None"]
    ELSE LET tag == IF config.tag.some THEN config.tag.value ELSE record.module_path
             built == log_tag(tag)
         IN  IF built.panic # NoPanic
             THEN [m |-> [m EXCEPT !.panic = built.panic], ret |-> built,
                   passed |-> TRUE, formatted |-> 0, result |-> "None"]
             ELSE LET writer == Fresh(config.buf_id, record.level, built.tag)
                      f == log_format(writer, config, record)
                  IN  [m |-> flush(f.m), ret |-> built, passed |-> TRUE,
                       formatted |-> f.formatted, result |-> f.result]

\* the last operation with its outcome
OpRet(name, pre, arg, ret) ==
    [op |-> name, pre |-> pre, arg |-> arg, iters |-> <<>>, ret |-> ret]

\* the outcome of a call of log, with the config and the record it had
LogOutcome(r, config, record) ==
    [tag |-> r.ret.tag, allocated |-> r.ret.allocated, panic |-> r.ret.panic,
     passed |-> r.passed, formatted |-> r.formatted, result |-> r.result,
     config |-> config, record |-> record]

\* logger.log(record) for a logger that lets every record pass (max level
\* Trace, no filter), with tags of every length: the writer of the record
\* replaces the one before
Log ==
    \E buf_id \in BufId, level \in Level, custom_tag \in CustomTag,
       custom_format \in {NoFormat, SomeFormat(TRUE, TRUE)} :
        \E module_path \in ModulePath(custom_tag), args \in RecordArgs :
            LET config == MakeConfig(SomeLevel("Trace"), buf_id, NoFilter,
                                     custom_tag, custom_format)
                record == MakeRecord(level, module_path, args)
                r == log(machine, global.max_level, config, record)
                fragments == log_fragments(custom_tag, custom_format,
                                           module_path, args)
            IN  /\ machine.panic = NoPanic
                /\ machine' = r.m
                /\ last' = OpRet("log", Fresh(buf_id, level, <<>>),
                                 IF custom_tag.some THEN custom_tag.value
                                 ELSE module_path,
                                 r.ret)
                /\ written' = IF r.ret.panic = NoPanic THEN Concat(fragments)
                              ELSE written
                /\ flushes' = IF r.ret.panic = NoPanic THEN 1 ELSE flushes
                /\ UNCHANGED <<global, threads>>

\* the logger: records logged one after another
SpecLog == Init /\ [][Log]_vars

\* fill_tag_bytes(&mut uninit_array(), tag) called on its own, as the unit
\* tests of the crate call it
FillTagBytes ==
    \E tag \in TagInput :
        LET r == fill_tag_bytes(uninit_tag_bytes, tag)
        IN  /\ machine.panic = NoPanic
            /\ machine' = [machine EXCEPT !.panic = r.panic]
            /\ last' = OpRet("fill_tag_bytes", Fresh("None", "Info", <<>>), tag, r)
            /\ UNCHANGED <<written, flushes, global, threads>>

\* the tag helper as the crate's unit tests drive it
SpecFill == Init /\ [][FillTagBytes]_vars

----------------------------------------------------------------------------
\* The global logger (src/src/lib.rs): init_once and log.

\* ANDROID_LOGGER holding a logger built from a config
SomeLogger(config) == [some |-> TRUE, config |-> config]

\* the record of the log::debug! at line 568: its module path and its text,
\* which is longer than a message
SetLoggerFailed ==
    MakeRecord("Debug", <<"m">>, [k \in 1..(LOGGING_MSG_MAX_LEN + 1) |-> "a"])

\* a macro of the log crate: the record goes to the registered logger when
\* its level is within log::max_level(); a logger of another crate is no
\* part of this state
log_macro(g, m, record) ==
    IF as_usize(record.level) <= as_usize(g.max_level) /\ g.logger = "Android"
    THEN log(m, g.max_level, g.android_logger.config, record).m
    ELSE m

\* Variant of init_once that sets the max level whether or not set_logger
\* succeeded.
init_once_sets_level_anyway(g, m, config) ==
    LET log_level == config.log_level
        g1 == IF g.android_logger.some THEN g
              ELSE [g EXCEPT !.android_logger = SomeLogger(config)]
        g2 == IF log_level.some THEN [g1 EXCEPT !.max_level = log_level.value]
              ELSE g1
    IN  IF g1.logger # "None"
        THEN [global |-> g2, m |-> log_macro(g1, m, SetLoggerFailed)]
        ELSE [global |-> [g2 EXCEPT !.logger = "Android"], m |-> m]

\* Variant of init_once that stores a logger built from its config over the
\* one that is there.
init_once_replaces_config(g, m, config) ==
    LET log_level == config.log_level
        g1 == [g EXCEPT !.android_logger = SomeLogger(config)]
    IN  IF g1.logger # "None"
        THEN [global |-> g1, m |-> log_macro(g1, m, SetLoggerFailed)]
        ELSE [global |-> [g1 EXCEPT !.logger = "Android",
                                    !.max_level = IF log_level.some
                                                  THEN log_level.value ELSE @],
              m |-> m]

\* init_once, lines 563-572.  ANDROID_LOGGER.get_or_init keeps a logger that
\* is there; log::set_logger fails when a logger is registered.
init_once(g, m, config) ==
    LET log_level == config.log_level
        g1 == IF g.android_logger.some THEN g
              ELSE [g EXCEPT !.android_logger = SomeLogger(config)]
    IN  IF g1.logger # "None"
        THEN [global |-> g1, m |-> log_macro(g1, m, SetLoggerFailed)]
        ELSE [global |-> [g1 EXCEPT !.logger = "Android",
                                    !.max_level = IF log_level.some
                                                  THEN log_level.value ELSE @],
              m |-> m]

\* the levels given to with_max_level and to the filter
InitLevel == {"Error", "Info", "Trace"}

\* the configs handed to init_once: a max level or none, a filter or none
InitConfig ==
    {MakeConfig(log_level, "None", filter, NoTag, NoFormat) :
        log_level \in {NoLevel} \cup {SomeLevel(l) : l \in InitLevel},
        filter \in {NoFilter} \cup {SomeFilter(l) : l \in InitLevel}}

\* a process before its first init_once: no logger of this crate yet; the
\* application may have registered another logger and set the max level
InitProcess ==
    /\ machine = Fresh("None", "Info", "tag")
    /\ last = Op("new", Fresh("None", "Info", "tag"), <<>>, <<>>)
    /\ written = <<>>
    /\ flushes = 0
    /\ global \in {[android_logger |-> NoLogger, logger |-> registered, max_level |-> l] :
                      registered \in {"None", "Other"}, l \in LevelFilter}
    /\ threads = NoThreads

\* android_logger::init_once(config); before is the process-wide state the
\* call found
InitOnce ==
    \E config \in InitConfig :
        LET r == init_once(global, machine, config)
        IN  /\ machine.panic = NoPanic
            /\ global' = r.global
            /\ machine' = r.m
            /\ last' = OpRet("init_once", Fresh("None", "Info", <<>>), config,
                             [before |-> global])
            /\ UNCHANGED <<written, flushes, threads>>

\* android_logger::log(record), lines 550-554, for a record of the
\* application
GlobalLog ==
    \E level \in {"Error", "Debug"} :
        LET record == MakeRecord(level, <<"m">>, <<NL>>)
            g1 == IF global.android_logger.some THEN global
                  ELSE [global EXCEPT !.android_logger = SomeLogger(DefaultConfig)]
        IN  /\ machine.panic = NoPanic
            /\ global' = g1
            /\ machine' = log(machine, g1.max_level, g1.android_logger.config, record).m
            /\ last' = OpRet("global_log", Fresh("None", "Info", <<>>), record,
                             [before |-> global])
            /\ UNCHANGED <<written, flushes, threads>>

NextInit == InitOnce \/ GlobalLog

\* the process: calls of init_once and of log in any order
SpecInit == InitProcess /\ [][NextInit]_vars

----------------------------------------------------------------------------
\* The logger as the unit tests of the crate drive it (tests::log_calls_formatter,
\* tests::logger_enabled_threshold): a logger is built from a config, one
\* call is made on it and its outcome is looked at.

\* the configs of the loggers: a max level or none, a filter or none, a
\* custom tag or none, a custom format or none
LoggerConfig ==
    {MakeConfig(log_level, "None", filter, tag, custom_format) :
        log_level \in {NoLevel} \cup {SomeLevel(l) : l \in {"Off", "Info", "Trace"}},
        filter \in {NoFilter, SomeFilter("Warn")},
        tag \in {NoTag, SomeTag(<<"t">>)},
        custom_format \in {NoFormat}
                          \cup {SomeFormat(w, ok) : w \in BOOLEAN, ok \in BOOLEAN}}

\* a process in which the tests run: no call made yet, log::max_level() at
\* some level
InitLogger ==
    /\ machine = Fresh("None", "Info", "tag")
    /\ last = Op("new", Fresh("None", "Info", "tag"), <<>>, <<>>)
    /\ written = <<>>
    /\ flushes = 0
    /\ global \in {[FreshGlobal EXCEPT !.max_level = l] : l \in LevelFilter}
    /\ threads = NoThreads

\* AndroidLogger::new(config).enabled(metadata)
Enabled ==
    \E config \in LoggerConfig, level \in RecordLevel :
        /\ last.op = "new"
        /\ last' = OpRet("enabled", machine, [config |-> config, level |-> level],
                         enabled(config, global.max_level, level))
        /\ UNCHANGED <<machine, written, flushes, global, threads>>

\* AndroidLogger::new(config).log(record)
LogRecord ==
    \E config \in LoggerConfig, level \in RecordLevel, args \in RecordArgs :
        LET record == MakeRecord(level, <<"m">>, args)
            r == log(machine, global.max_level, config, record)
        IN  /\ last.op = "new"
            /\ machine' = r.m
            /\ last' = OpRet("log", machine,
                             IF config.tag.some THEN config.tag.value
                             ELSE record.module_path,
                             LogOutcome(r, config, record))
            /\ written' = IF r.passed /\ r.ret.panic = NoPanic
                          THEN Concat(log_fragments(config.tag, config.custom_format,
                                                    record.module_path, record.args))
                          ELSE written
            /\ flushes' = IF r.passed /\ r.ret.panic = NoPanic THEN 1 ELSE flushes
            /\ UNCHANGED <<global, threads>>

NextLogger == Enabled \/ LogRecord

SpecLogger == InitLogger /\ [][NextLogger]_vars

----------------------------------------------------------------------------
\* init_once called by several threads at once (src/src/lib.rs 563-572).
\* The function takes no lock: between its calls of OnceLock::get_or_init,
\* log::set_logger and log::set_max_level, each atomic in itself, the other
\* threads run.

\* Number of threads that call init_once.
MaxThreads == 2

ThreadId == 1..MaxThreads

\* the configs of the threads: Config::default().with_max_level(l)
ThreadConfig ==
    {MakeConfig(SomeLevel(l), "None", NoFilter, NoTag, NoFormat) : l \in InitLevel}

\* a thread at the entry of init_once(config)
Entering(config) == [pc |-> "start", config |-> config]

\* line 565: ANDROID_LOGGER.get_or_init(|| AndroidLogger::new(config)) keeps
\* the logger that is there, else stores one built from the config
get_or_init(g, config) ==
    IF g.android_logger.some THEN g
    ELSE [g EXCEPT !.android_logger = SomeLogger(config)]

\* line 567: log::set_logger(logger) registers the logger when none is
\* registered (one compare-and-swap), else fails
set_logger(g) ==
    IF g.logger = "None"
    THEN [global |-> [g EXCEPT !.logger = "Android"], ok |-> TRUE]
    ELSE [global |-> g, ok |-> FALSE]

\* lines 569-570: log::set_max_level(level) when the config gave a level
set_max_level(g, log_level) ==
    IF log_level.some THEN [g EXCEPT !.max_level = log_level.value] ELSE g

\* the process as the threads enter init_once: fresh, each thread with a config
InitThreads ==
    /\ machine = Fresh("None", "Info", "tag")
    /\ last = Op("new", Fresh("None", "Info", "tag"), <<>>, <<>>)
    /\ written = <<>>
    /\ flushes = 0
    /\ global = FreshGlobal
    /\ threads \in [ThreadId -> {Entering(config) : config \in ThreadConfig}]

\* a thread runs lines 564-565
GetOrInit ==
    \E t \in ThreadId :
        /\ threads[t].pc = "start"
        /\ global' = get_or_init(global, threads[t].config)
        /\ threads' = [threads EXCEPT ![t].pc = "got"]
        /\ UNCHANGED <<machine, written, flushes, last>>

\* a thread runs line 567
SetLogger ==
    \E t \in ThreadId :
        LET r == set_logger(global)
        IN  /\ threads[t].pc = "got"
            /\ global' = r.global
            /\ threads' = [threads EXCEPT ![t].pc = IF r.ok THEN "registered"
                                                   ELSE "failed"]
            /\ UNCHANGED <<machine, written, flushes, last>>

\* a thread whose set_logger failed runs line 568 and returns
DebugFailed ==
    \E t \in ThreadId :
        /\ threads[t].pc = "failed"
        /\ machine.panic = NoPanic
        /\ machine' = log_macro(global, machine, SetLoggerFailed)
        /\ threads' = [threads EXCEPT ![t].pc = "returned"]
        /\ UNCHANGED <<written, flushes, last, global>>

\* the thread whose set_logger succeeded runs lines 569-570 and returns
SetMaxLevel ==
    \E t \in ThreadId :
        /\ threads[t].pc = "registered"
        /\ global' = set_max_level(global, threads[t].config.log_level)
        /\ threads' = [threads EXCEPT ![t].pc = "returned"]
        /\ UNCHANGED <<machine, written, flushes, last>>

NextThreads == GetOrInit \/ SetLogger \/ DebugFailed \/ SetMaxLevel

SpecThreads == InitThreads /\ [][NextThreads]_vars

----------------------------------------------------------------------------
\* copy_bytes_to_start as the unit tests of the crate drive it
\* (tests::copy_bytes_to_start, tests::copy_bytes_to_start_nop): a writer is
\* constructed, one string is written to it and the bytes are moved.

\* the writer of the tests (get_tag_writer)
InitCopy ==
    /\ machine = Fresh("None", "Warn", "tag")
    /\ last = Op("new", Fresh("None", "Warn", "tag"), <<>>, <<>>)
    /\ written = <<>>
    /\ flushes = 0
    /\ global = FreshGlobal
    /\ threads = NoThreads

\* writer.write_str(s), the one write of the test
WriteOnce ==
    \E s \in Fragments(MaxFrag) :
        /\ last.op = "new"
        /\ LET r == write_str(machine, s)
           IN  /\ machine' = r.m
               /\ last' = Op("write_str", machine, s, r.iters)
        /\ written' = s
        /\ UNCHANGED <<flushes, global, threads>>

\* writer.copy_bytes_to_start(index, len) with index + len within the
\* storage of LOGGING_MSG_MAX_LEN + 1 bytes
CopyBytesToStart ==
    \E index \in 0..(LOGGING_MSG_MAX_LEN + 1) :
        \E len \in 0..(LOGGING_MSG_MAX_LEN + 1 - index) :
            /\ last.op = "write_str"
            /\ machine.panic = NoPanic
            /\ machine' = copy_bytes_to_start(machine, index, len)
            /\ last' = Op("copy_bytes_to_start", machine,
                          [index |-> index, len |-> len], <<>>)
            /\ UNCHANGED <<written, flushes, global, threads>>

NextCopy == WriteOnce \/ CopyBytesToStart

SpecCopy == InitCopy /\ [][NextCopy]_vars

----------------------------------------------------------------------------
\* Observations used by the properties.

\* buffer[0..len) of a machine
Buffered(m) == Slice(m.self.buffer, 0, m.self.len)

\* the concatenation of the bodies a machine has emitted, in emission order
Emitted(m) == Concat(Bodies(m.sink))

\* the body of the message a machine emitted last
LastBody(m) == m.sink[Len(m.sink)].msg

\* the indices of the passes of the last write_str that overflowed
OverflowPasses == {k \in 1..Len(last.iters) : last.iters[k].overflow}

\* every call of temporal_flush made by the last operation, as the machine
\* before and after it: those of the passes of write_str that overflowed,
\* and the call made on its own
BoundedFlushes ==
    {[pre |-> last.iters[k].full, post |-> last.iters[k].after] : k \in OverflowPasses}
    \cup (IF last.op = "temporal_flush"
          THEN {[pre |-> last.pre, post |-> machine]} ELSE {})

RECURSIVE SumWritten(_)
SumWritten(iters) ==
    IF iters = <<>> THEN 0 ELSE Head(iters).written_len + SumWritten(Tail(iters))

HasByte(s, b) == \E k \in 1..Len(s) : s[k] = b

----------------------------------------------------------------------------
\* C1: after write_str calls with NUL-free fragments followed by flush, the
\* concatenation of the emitted message bodies, in emission order, is exactly
\* the concatenation of the written fragments, also when the total length
\* exceeds the capacity.
C1_RoundTrip ==
    (last.op = "flush" /\ ~HasByte(written, NUL)) => Emitted(machine) = written

C1_Witness ==
    /\ last.op = "flush"
    /\ ~HasByte(written, NUL)
    /\ HasByte(written, NL)
    /\ Len(written) > LOGGING_MSG_MAX_LEN
    /\ Len(machine.sink) >= 3
    /\ Emitted(machine) = written

\* C2: every message handed to android_log has a body of at most
\* LOGGING_MSG_MAX_LEN bytes.
C2_BodyWithinCapacity ==
    \A k \in 1..Len(machine.sink) : Len(machine.sink[k].msg) <= LOGGING_MSG_MAX_LEN

C2_Witness ==
    /\ last.op = "flush"
    /\ last.pre.self.len > 0
    /\ Len(machine.sink) >= 2
    /\ Len(machine.sink[1].msg) = LOGGING_MSG_MAX_LEN

\* C3: NUL substitution.  No emitted body contains a NUL; a write that fits
\* appends the fragment with each NUL replaced by a space; after a flush the
\* emitted bodies together are the input with each NUL replaced by a space.
C3_NulSubstitution ==
    /\ \A k \in 1..Len(machine.sink) : ~HasByte(machine.sink[k].msg, NUL)
    /\ ~HasByte(Buffered(machine), NUL)
    /\ (last.op = "write_str" /\ OverflowPasses = {})
          => Buffered(machine) = Buffered(last.pre) \o Substituted(last.arg)
    /\ last.op = "flush" => Emitted(machine) = Substituted(written)

C3_Witness ==
    /\ last.op = "flush"
    /\ HasByte(written, NUL)
    /\ Len(written) > LOGGING_MSG_MAX_LEN
    /\ \E k \in 1..Len(machine.sink) : HasByte(machine.sink[k].msg, SP)
    /\ Emitted(machine) = Substituted(written)
    /\ Len(Emitted(machine)) = Len(written)

\* C4: 0 <= len <= capacity in every reachable state.
C4_LenWithinCapacity ==
    machine.self.len \in 0..LOGGING_MSG_MAX_LEN

C4_Witness ==
    /\ last.op = "write_str"
    /\ OverflowPasses # {}
    /\ machine.self.len = LOGGING_MSG_MAX_LEN

\* C5: flush on a writer with len > 0 emits exactly one message, whose body is
\* buffer[0..len), wherever a newline is recorded, and leaves len = 0 and
\* last_newline_index = 0.
C5_FlushEmitsAll ==
    (last.op = "flush" /\ last.pre.self.len > 0) =>
        /\ Len(machine.sink) = Len(last.pre.sink) + 1
        /\ SubSeq(machine.sink, 1, Len(last.pre.sink)) = last.pre.sink
        /\ LastBody(machine) = Buffered(last.pre)
        /\ machine.self.len = 0
        /\ machine.self.last_newline_index = 0

C5_Witness ==
    /\ last.op = "flush"
    /\ last.pre.self.len > 1
    /\ last.pre.self.last_newline_index > 0
    /\ LastBody(machine) = Buffered(last.pre)

\* C6: flush on a writer with len = 0 emits nothing and changes no field; a
\* flush always leaves len = 0, so a second flush right after a flush is
\* this no-op.
C6_FlushEmptyNoOp ==
    /\ (last.op = "flush" /\ last.pre.self.len = 0) => machine = last.pre
    /\ last.op = "flush" => (machine.self.len = 0 /\ flush(machine) = machine)

C6_Witness ==
    /\ last.op = "flush"
    /\ last.pre.self.len = 0
    /\ last.pre.sink # <<>>
    /\ machine = last.pre

\* C7 as claimed: a bounded flush with a newline recorded at i > 0 emits
\* buffer[0..=i], the newline included, moves buffer[i+1..len) to the start
\* and leaves len = old len - i - 1.
C7_Claimed ==
    \A f \in BoundedFlushes :
        (f.pre.self.len > 0 /\ f.pre.self.last_newline_index > 0) =>
            LET i == f.pre.self.last_newline_index IN
            /\ LastBody(f.post) = Slice(f.pre.self.buffer, 0, i + 1)
            /\ f.post.self.len = f.pre.self.len - i - 1
            /\ Buffered(f.post) = Slice(f.pre.self.buffer, i + 1, f.pre.self.len)

\* C7 as amended: a bounded flush with a newline recorded at i > 0 emits one
\* message with body buffer[0..i), which stops before the newline (the
\* temporary terminator stands at position i), moves buffer[i..len) to the
\* start and leaves len = old len - i; nothing of the storage from position
\* len - i on is changed.
C7_FlushBeforeNewline ==
    \A f \in BoundedFlushes :
        (f.pre.self.len > 0 /\ f.pre.self.last_newline_index > 0) =>
            LET i == f.pre.self.last_newline_index IN
            /\ f.post.sink = Append(f.pre.sink,
                                    [buf_id |-> f.pre.self.buf_id,
                                     priority |-> f.pre.self.priority,
                                     tag |-> f.pre.self.tag,
                                     msg |-> Slice(f.pre.self.buffer, 0, i)])
            /\ f.pre.self.buffer[i] = NL
            /\ f.post.self.len = f.pre.self.len - i
            /\ \A k \in 0..LOGGING_MSG_MAX_LEN :
                  f.post.self.buffer[k] =
                      IF k < f.pre.self.len - i THEN f.pre.self.buffer[i + k]
                      ELSE f.pre.self.buffer[k]

C7_Witness ==
    \E f \in BoundedFlushes :
        /\ f.pre.self.last_newline_index > 0
        /\ f.pre.self.len - f.pre.self.last_newline_index >= 2
        /\ f.post.self.len = f.pre.self.len - f.pre.self.last_newline_index
        /\ Len(f.post.sink) = Len(f.pre.sink) + 1

\* C8: a bounded flush with the last newline recorded at i > 0 and n bytes
\* buffered leaves the bytes from the newline on: len = n - i, buffer[0..n-i)
\* is the old buffer[i..n) and starts with the newline, last_newline_index = 0.
C8_NewlineStaysBuffered ==
    \A f \in BoundedFlushes :
        (f.pre.self.len > 0 /\ f.pre.self.last_newline_index > 0) =>
            LET i == f.pre.self.last_newline_index
                n == f.pre.self.len
            IN  /\ i < n
                /\ f.post.self.len = n - i
                /\ Buffered(f.post) = Slice(f.pre.self.buffer, i, n)
                /\ f.post.self.buffer[0] = NL
                /\ f.post.self.last_newline_index = 0

\* the shape of tests::temporal_flush: temporal_flush called on its own, the
\* newline and the tail left behind
C8_Witness ==
    /\ last.op = "temporal_flush"
    /\ last.pre.self.last_newline_index > 0
    /\ machine.self.len >= 2
    /\ machine.self.buffer[0] = NL
    /\ machine.self.last_newline_index = 0

\* C9: a bounded flush with no newline recorded and len > 0 emits all of
\* buffer[0..len) as one message and leaves len = 0; whichever branch a
\* bounded flush takes, last_newline_index is 0 afterwards.
C9_FlushAllWithoutNewline ==
    \A f \in BoundedFlushes :
        f.pre.self.len > 0 =>
            /\ f.post.self.last_newline_index = 0
            /\ f.pre.self.last_newline_index = 0 =>
                  /\ Len(f.post.sink) = Len(f.pre.sink) + 1
                  /\ SubSeq(f.post.sink, 1, Len(f.pre.sink)) = f.pre.sink
                  /\ LastBody(f.post) = Buffered(f.pre)
                  /\ f.post.self.len = 0

C9_Witness ==
    /\ \E f \in BoundedFlushes :
          /\ f.pre.self.last_newline_index = 0
          /\ f.pre.self.len = LOGGING_MSG_MAX_LEN
          /\ f.post.self.len = 0
    /\ \E f \in BoundedFlushes :
          /\ f.pre.self.last_newline_index > 0
          /\ f.post.self.last_newline_index = 0

\* C10: write_str flushes only on overflow.  A call whose fragment fits
\* (len + |fragment| <= capacity) emits nothing and appends the fragment.
\* Otherwise each pass that does not fit copies the capacity - len bytes that
\* fit, calls the bounded flush with len = capacity, which emits a message,
\* and the loop goes on with the rest; the pass that fits emits nothing and is
\* the last one; together the passes consume the whole fragment.
C10_FlushOnlyOnOverflow ==
    last.op = "write_str" =>
        LET pre == last.pre
            s == last.arg
            it == last.iters
        IN  /\ pre.self.len + Len(s) <= LOGGING_MSG_MAX_LEN =>
                  /\ machine.sink = pre.sink
                  /\ machine.self.len = pre.self.len + Len(s)
                  /\ Buffered(machine) = Buffered(pre) \o Substituted(s)
            /\ s # <<>> => (it # <<>> /\ it[1].before = pre /\ it[1].incoming = s)
            /\ SumWritten(it) = Len(s)
            /\ \A k \in 1..Len(it) :
                  LET b == it[k].before
                      inc == it[k].incoming
                      fit == LOGGING_MSG_MAX_LEN - b.self.len
                  IN  IF b.self.len + Len(inc) > LOGGING_MSG_MAX_LEN
                      THEN /\ it[k].written_len = fit
                           /\ it[k].full.self.len = LOGGING_MSG_MAX_LEN
                           /\ Buffered(it[k].full)
                                = Buffered(b) \o Substituted(SubSeq(inc, 1, fit))
                           /\ it[k].full.sink = b.sink
                           /\ Len(it[k].after.sink) = Len(b.sink) + 1
                           /\ k < Len(it)
                           /\ it[k + 1].before = it[k].after
                           /\ it[k + 1].incoming = SubSeq(inc, fit + 1, Len(inc))
                      ELSE /\ it[k].after.sink = b.sink
                           /\ it[k].written_len = Len(inc)
                           /\ k = Len(it)
                           /\ it[k].after = machine

C10_Witness ==
    /\ last.op = "write_str"
    /\ last.pre.self.len > 0
    /\ Len(last.iters) = 3
    /\ last.iters[1].written_len > 0
    /\ last.iters[1].overflow
    /\ last.iters[2].overflow
    /\ ~last.iters[3].overflow
    /\ Len(machine.sink) = Len(last.pre.sink) + 2

\* the message a machine hands to android_log with body `body`
Message(m, body) ==
    [buf_id |-> m.self.buf_id, priority |-> m.self.priority,
     tag |-> m.self.tag, msg |-> body]

\* the last operation was a write_str whose non-empty newline-free fragment
\* filled the buffer exactly
ExactFill ==
    /\ last.op = "write_str"
    /\ last.arg # <<>>
    /\ ~HasByte(last.arg, NL)
    /\ last.pre.self.len + Len(last.arg) = LOGGING_MSG_MAX_LEN

\* C11 as claimed: a write_str whose newline-free fragment fills the buffer
\* exactly emits, in that call, the entire buffered content as one message.
C11_Claimed ==
    ExactFill =>
        /\ Len(machine.sink) = Len(last.pre.sink) + 1
        /\ LastBody(machine) = Buffered(last.pre) \o Substituted(last.arg)

\* C11 as amended: that call emits nothing and leaves the bytes buffered with
\* len = capacity; the entire content is emitted as one message by the next
\* call, be it flush or, when no newline is recorded, a non-empty write_str.
C11_ExactFillDefersFlush ==
    ExactFill =>
        /\ machine.sink = last.pre.sink
        /\ machine.self.len = LOGGING_MSG_MAX_LEN
        /\ Buffered(machine) = Buffered(last.pre) \o Substituted(last.arg)
        /\ flush(machine).sink
             = Append(machine.sink, Message(machine, Buffered(machine)))
        /\ machine.self.last_newline_index = 0 =>
              \A b \in InputByte :
                  /\ write_str(machine, <<b>>).iters[1].after.sink
                       = Append(machine.sink, Message(machine, Buffered(machine)))
                  /\ write_str(machine, <<b>>).m.self.len = 1

C11_Witness ==
    /\ ExactFill
    /\ last.pre.self.len > 0
    /\ machine.sink = last.pre.sink
    /\ machine.self.len = LOGGING_MSG_MAX_LEN
    /\ machine.self.last_newline_index = 0

\* C12: when the buffer holds capacity newline-free bytes, the next non-empty
\* write_str first emits these capacity bytes as one message: its first pass
\* stores no byte of the fragment, the message is the old buffer content, and
\* the fragment goes into the emptied buffer afterwards.
C12_FullBufferFlushedFirst ==
    (/\ last.op = "write_str"
     /\ last.arg # <<>>
     /\ last.pre.self.len = LOGGING_MSG_MAX_LEN
     /\ ~HasByte(Buffered(last.pre), NL)) =>
        LET first == last.iters[1] IN
        /\ first.written_len = 0
        /\ first.full.self.buffer = last.pre.self.buffer
        /\ first.after.sink
             = Append(last.pre.sink, Message(last.pre, Buffered(last.pre)))
        /\ first.after.self.len = 0
        /\ Len(last.iters) >= 2
        /\ last.iters[2].before = first.after
        /\ last.iters[2].incoming = last.arg

C12_Witness ==
    /\ last.op = "write_str"
    /\ Len(last.arg) >= 2
    /\ last.pre.self.len = LOGGING_MSG_MAX_LEN
    /\ ~HasByte(Buffered(last.pre), NL)
    /\ Len(machine.sink) = Len(last.pre.sink) + 1
    /\ LastBody(machine) = Buffered(last.pre)
    /\ Buffered(machine) = Substituted(last.arg)

\* the last operation was the first flush of the writer: a record, written
\* in fragments and then flushed once
RecordFlushed == last.op = "flush" /\ flushes = 1

\* every newline-delimited line of s is shorter than the capacity: every
\* window of capacity bytes holds a newline
LinesShort(s) ==
    \A i \in 1..(Len(s) - LOGGING_MSG_MAX_LEN + 1) :
        \E k \in i..(i + LOGGING_MSG_MAX_LEN - 1) : s[k] = NL

\* the boundary between the messages k and k + 1 of a sink is next to a
\* newline: message k ends with one or message k + 1 starts with one
BoundaryAtNewline(sink, k) ==
    \/ (sink[k].msg # <<>> /\ sink[k].msg[Len(sink[k].msg)] = NL)
    \/ (sink[k + 1].msg # <<>> /\ sink[k + 1].msg[1] = NL)

\* C13: when every line of the record is shorter than the capacity, however
\* the record is cut into fragments, no two consecutive messages are split
\* inside a line: every boundary is next to a newline.
C13_NoSplitInsideShortLines ==
    (RecordFlushed /\ LinesShort(written)) =>
        \A k \in 1..(Len(machine.sink) - 1) : BoundaryAtNewline(machine.sink, k)

C13_Witness ==
    /\ RecordFlushed
    /\ LinesShort(written)
    /\ Len(machine.sink) >= 3
    /\ \E k \in 1..Len(written) : written[k] # NL
    /\ \A k \in 1..(Len(machine.sink) - 1) : BoundaryAtNewline(machine.sink, k)

\* C14 as claimed: a non-empty record of at most capacity bytes, written in
\* any fragments to a fresh writer and flushed, gives exactly one message,
\* whose body is the input itself, and leaves len = last_newline_index = 0.
C14_Claimed ==
    (RecordFlushed /\ written # <<>> /\ Len(written) <= LOGGING_MSG_MAX_LEN) =>
        /\ Len(machine.sink) = 1
        /\ machine.sink[1].msg = written
        /\ machine.self.len = 0
        /\ machine.self.last_newline_index = 0

\* C14 as amended: the body of the one message is the input with each NUL
\* replaced by a space (the input itself when it holds no NUL).
C14_OneMessagePerShortRecord ==
    (RecordFlushed /\ written # <<>> /\ Len(written) <= LOGGING_MSG_MAX_LEN) =>
        /\ machine.sink = <<Message(machine, Substituted(written))>>
        /\ ~HasByte(written, NUL) => machine.sink[1].msg = written
        /\ machine.self.len = 0
        /\ machine.self.last_newline_index = 0

C14_Witness ==
    /\ RecordFlushed
    /\ Len(written) = LOGGING_MSG_MAX_LEN
    /\ HasByte(written, NL)
    /\ HasByte(written, NUL)
    /\ last.pre.self.last_newline_index > 0
    /\ Len(machine.sink) = 1
    /\ machine.sink[1].msg = Substituted(written)

\* C15: emitting a prefix does not disturb the buffer.  For every k <= len,
\* output_specified_len(k) emits buffer[0..k) and leaves the whole storage,
\* the byte at position k included, as it was; so a flush, which emits with
\* k = len, leaves the storage as it found it.
C15_EmitLeavesBuffer ==
    /\ \A k \in 0..machine.self.len :
          LET r == output_specified_len(machine, k) IN
          /\ r.panic = NoPanic
          /\ r.self = machine.self
          /\ r.sink = Append(machine.sink,
                             Message(machine, Slice(machine.self.buffer, 0, k)))
    /\ last.op = "flush" => machine.self.buffer = last.pre.self.buffer

C15_Witness ==
    /\ last.op = "flush"
    /\ last.pre.self.len = LOGGING_MSG_MAX_LEN
    /\ Len(machine.sink) = Len(last.pre.sink) + 1
    /\ machine.self.buffer = last.pre.self.buffer
    /\ \E k \in 1..(LOGGING_MSG_MAX_LEN - 1) :
          /\ last.pre.self.buffer[k] = NL
          /\ output_specified_len(last.pre, k).self.buffer[k] = NL
          /\ Len(LastBody(output_specified_len(last.pre, k))) = k

\* the highest index above 0 of a newline in buffer[0..len), 0 when none
HighestNewline(m) ==
    LET at == {k \in 1..(m.self.len - 1) : m.self.buffer[k] = NL}
    IN  IF at = {} THEN 0 ELSE CHOOSE k \in at : \A j \in at : j <= k

\* last_newline_index of a machine is 0 or the index of a buffered newline,
\* and it is the highest such index
NewlineIndexExact(m) ==
    /\ \/ m.self.last_newline_index = 0
       \/ /\ m.self.last_newline_index < m.self.len
          /\ m.self.buffer[m.self.last_newline_index] = NL
    /\ m.self.last_newline_index = HighestNewline(m)

\* C16: after every write_str, flush and bounded flush, last_newline_index is
\* 0 or the index, below len, of a buffered newline, and it is the highest
\* index of a newline in buffer[0..len), counted from the start of the buffer
\* (0 when no newline stands at an index above 0).
C16_NewlineIndexIsHighest ==
    /\ NewlineIndexExact(machine)
    /\ \A f \in BoundedFlushes : NewlineIndexExact(f.post)

C16_Witness ==
    /\ last.op = "write_str"
    /\ last.pre.self.len >= 2
    /\ last.pre.self.last_newline_index = 1
    /\ Len(last.arg) = 1
    /\ last.arg[1] = NL
    /\ machine.self.last_newline_index = last.pre.self.len

\* one pass of write_str stored exactly the bytes it counted as written:
\* the next written_len bytes of the fragment, NUL as space, at the old len
PassStoresWhatItConsumes(it) ==
    /\ it.written_len = it.full.self.len - it.before.self.len
    /\ it.written_len <= Len(it.incoming)
    /\ Slice(it.full.self.buffer, it.before.self.len, it.full.self.len)
         = Substituted(SubSeq(it.incoming, 1, it.written_len))

\* C17: write_str is total.  From every reachable writer state and for every
\* fragment the loop ends after at most Len(fragment) + 1 passes, without a
\* panic, having consumed the whole fragment, each pass storing what it
\* consumed; a pass that copies no byte because the buffer is full is
\* followed by a pass that copies at least one; an empty fragment changes
\* nothing.
C17_WriteStrTotal ==
    last.op = "write_str" =>
        /\ machine.panic = NoPanic
        /\ SumWritten(last.iters) = Len(last.arg)
        /\ Len(last.iters) <= Len(last.arg) + 1
        /\ last.arg = <<>> => (last.iters = <<>> /\ machine = last.pre)
        /\ \A k \in 1..Len(last.iters) :
              /\ PassStoresWhatItConsumes(last.iters[k])
              /\ last.iters[k].after.panic = NoPanic
              /\ k = Len(last.iters)
                   => last.iters[k].written_len = Len(last.iters[k].incoming)
              /\ last.iters[k].written_len = 0
                   => /\ last.iters[k].before.self.len = LOGGING_MSG_MAX_LEN
                      /\ k < Len(last.iters)
                      /\ last.iters[k + 1].written_len > 0

C17_Witness ==
    /\ last.op = "write_str"
    /\ last.pre.self.len = LOGGING_MSG_MAX_LEN
    /\ Len(last.iters) >= 2
    /\ last.iters[1].written_len = 0
    /\ last.iters[2].written_len > 0
    /\ SumWritten(last.iters) = Len(last.arg)
    /\ machine.panic = NoPanic

\* two machines hold the same tag, priority and destination channel
SameIdentity(m1, m2) ==
    /\ m1.self.tag = m2.self.tag
    /\ m1.self.priority = m2.self.priority
    /\ m1.self.buf_id = m2.self.buf_id

\* every message a machine has emitted carries the machine's tag, priority
\* and destination channel
CarriesIdentity(m) ==
    \A k \in 1..Len(m.sink) :
        /\ m.sink[k].tag = m.self.tag
        /\ m.sink[k].priority = m.self.priority
        /\ m.sink[k].buf_id = m.self.buf_id

\* C18: write_str, flush and the bounded flush leave the tag, the priority
\* and the destination channel as construction set them, and every message
\* the writer has emitted carries exactly these three values.
C18_IdentityFixed ==
    /\ last.op # "new" => SameIdentity(machine, last.pre)
    /\ \A k \in 1..Len(last.iters) :
          /\ SameIdentity(last.iters[k].full, last.pre)
          /\ SameIdentity(last.iters[k].after, last.pre)
    /\ CarriesIdentity(machine)

C18_Witness ==
    /\ last.op = "write_str"
    /\ OverflowPasses # {}
    /\ Len(machine.sink) >= 2
    /\ machine.self.buf_id = "Main"
    /\ machine.self.priority = "Info"
    /\ machine.self.tag = "app"
    /\ CarriesIdentity(machine)
    /\ SameIdentity(machine, last.pre)

\* the tag a long input is ellipsized to: its first LOGGING_TAG_MAX_LEN - 2
\* bytes and the two-byte marker
Ellipsized(tag) == SubSeq(tag, 1, LOGGING_TAG_MAX_LEN - 2) \o <<".", ".">>

\* fill_tag_bytes gave a long NUL-free input as LOGGING_TAG_MAX_LEN bytes, the
\* last two the marker, and a terminator
LongTagEllipsized(tag, r) ==
    (NulFree(tag) /\ Len(tag) > LOGGING_TAG_MAX_LEN) =>
        /\ r.panic = NoPanic
        /\ Len(to_bytes(r.cstr)) = LOGGING_TAG_MAX_LEN
        /\ to_bytes(r.cstr) = Ellipsized(tag)
        /\ r.cstr = Ellipsized(tag) \o <<NUL>>

EmittedTagIs(tag) ==
    /\ machine.self.tag = tag
    /\ Len(machine.sink) >= 1
    /\ \A k \in 1..Len(machine.sink) : machine.sink[k].tag = tag

EmitLens(m) ==
    IF m.self.len = 0 THEN {}
    ELSE {m.self.len}
         \cup (IF m.self.last_newline_index > 0
               THEN {m.self.last_newline_index} ELSE {})

\* a call output_specified_len(k) on a machine passes both assertions: the
\* terminator goes inside the storage, and the bytes before it are written
\* bytes other than NUL
EmitCallSafe(m, k) ==
    /\ k <= LOGGING_MSG_MAX_LEN
    /\ k \in DOMAIN m.self.buffer
    /\ \A i \in 0..(k - 1) : m.self.buffer[i] \notin {NUL, UNINIT}
    /\ output_specified_len(m, k).panic = NoPanic

\* C21: the fatal assertions of output_specified_len are unreachable.  No
\* operation panics, and every call flush or temporal_flush made in the last
\* operation, or would make from the state reached, has its terminator
\* position at most LOGGING_MSG_MAX_LEN and no NUL before it.
C21_AssertionsUnreachable ==
    /\ machine.panic = NoPanic
    /\ \A k \in EmitLens(machine) : EmitCallSafe(machine, k)
    /\ last.op = "flush" => \A k \in EmitLens(last.pre) : EmitCallSafe(last.pre, k)
    /\ \A f \in BoundedFlushes :
          /\ f.post.panic = NoPanic
          /\ \A k \in EmitLens(f.pre) : EmitCallSafe(f.pre, k)

C21_Witness ==
    /\ last.op = "flush"
    /\ last.pre.self.len = LOGGING_MSG_MAX_LEN
    /\ HasByte(written, NUL)
    /\ machine.panic = NoPanic
    /\ Len(machine.sink) = Len(last.pre.sink) + 1
    /\ Len(LastBody(machine)) = LOGGING_MSG_MAX_LEN
    /\ EmitCallSafe(last.pre, LOGGING_MSG_MAX_LEN)

\* C28: conservation at every step.  After every operation on a writer the
\* bodies emitted so far followed by buffer[0..len) are the input written so
\* far with NUL as space; so a writer dropped before its flush has emitted
\* all of the input but its last len bytes.
C28_Conservation ==
    /\ Emitted(machine) \o Buffered(machine) = Substituted(written)
    /\ Emitted(machine)
         = SubSeq(Substituted(written), 1, Len(written) - machine.self.len)
    /\ \A k \in 1..Len(last.iters) :
          Emitted(last.iters[k].after) \o Buffered(last.iters[k].after)
            = Emitted(last.iters[k].full) \o Buffered(last.iters[k].full)

C28_Witness ==
    /\ last.op = "write_str"
    /\ flushes = 0
    /\ OverflowPasses # {}
    /\ HasByte(written, NUL)
    /\ HasByte(written, NL)
    /\ machine.self.len > 0
    /\ Len(machine.sink) >= 1
    /\ Emitted(machine) \o Buffered(machine) = Substituted(written)
    /\ Emitted(machine) # Substituted(written)

\* a full buffer whose only newline is at index 0
OnlyNewlineAtZero(m) ==
    /\ m.self.len = LOGGING_MSG_MAX_LEN
    /\ m.self.buffer[0] = NL
    /\ \A k \in 1..(m.self.len - 1) : m.self.buffer[k] # NL

\* C29: a newline at index 0 counts as no newline.  A bounded flush of a full
\* buffer whose only newline is at index 0 finds last_newline_index = 0,
\* emits all LOGGING_MSG_MAX_LEN bytes, the newline first, as one message and
\* leaves len = 0.
C29_NewlineAtZeroIsNone ==
    \A f \in BoundedFlushes :
        OnlyNewlineAtZero(f.pre) =>
            /\ f.pre.self.last_newline_index = 0
            /\ f.post.sink = Append(f.pre.sink, Message(f.pre, Buffered(f.pre)))
            /\ LastBody(f.post)[1] = NL
            /\ Len(LastBody(f.post)) = LOGGING_MSG_MAX_LEN
            /\ f.post.self.len = 0
            /\ f.post.self.last_newline_index = 0

\* the newline at index 0 was left there by the bounded flush before
C29_Witness ==
    /\ last.op = "write_str"
    /\ \E j, k \in OverflowPasses :
          /\ j < k
          /\ last.iters[j].full.self.last_newline_index > 0
          /\ last.iters[j].after.self.buffer[0] = NL
          /\ OnlyNewlineAtZero(last.iters[k].full)
          /\ last.iters[k].after.self.len = 0
          /\ LastBody(last.iters[k].after) = Buffered(last.iters[k].full)

\* C30: no empty message is ever emitted.  Every message handed to
\* android_log, by write_str, temporal_flush or flush, has a body of at least
\* one byte.
C30_NoEmptyMessage ==
    \A k \in 1..Len(machine.sink) : Len(machine.sink[k].msg) >= 1

C30_Witness ==
    /\ last.op = "flush"
    /\ last.pre.self.len = 0
    /\ Len(last.pre.sink) >= 1
    /\ machine.sink = last.pre.sink
    /\ \A k \in 1..Len(machine.sink) : Len(machine.sink[k].msg) >= 1

ConfiguredLevel(config) ==
    IF config.log_level.some THEN config.log_level.value
    ELSE IF config.filter.some THEN config.filter.value
    ELSE "Error"

\* the last call was init_once in a process where no logger was registered
\* and ANDROID_LOGGER was empty
FirstInitOnce ==
    /\ last.op = "init_once"
    /\ last.ret.before.logger = "None"
    /\ ~last.ret.before.android_logger.some

\* C23: after the first init_once(config) in a process where no logger is
\* registered yet, log::max_level() is the level configured in config.
C23_Claimed ==
    (FirstInitOnce /\ (last.arg.log_level.some \/ last.arg.filter.some)) =>
        global.max_level = ConfiguredLevel(last.arg)

\* C24: init_once with the default Config, in a process at its start, leaves
\* log::max_level() at Error.
C24_Claimed ==
    (FirstInitOnce /\ last.arg = DefaultConfig /\ last.ret.before = FreshGlobal) =>
        global.max_level = "Error"

\* the record levels a threshold lets through: those at or above it in
\* severity
AtOrAbove(threshold) ==
    CASE threshold = "Off" -> {}
      [] threshold = "Error" -> {"Error"}
      [] threshold = "Warn" -> {"Error", "Warn"}
      [] threshold = "Info" -> {"Error", "Warn", "Info"}
      [] threshold = "Debug" -> {"Error", "Warn", "Info", "Debug"}
      [] threshold = "Trace" -> {"Error", "Warn", "Info", "Debug", "Trace"}

\* the threshold of a logger: the max level of its config, else the global one
Threshold(config) ==
    IF config.log_level.some THEN config.log_level.value ELSE global.max_level

LoggedRecord ==
    /\ last.op = "log"
    /\ last.ret.record.level \in AtOrAbove(Threshold(last.ret.config))
    /\ last.ret.config.filter.some =>
          last.ret.record.level \in AtOrAbove(last.ret.config.filter.value)

\* the text the custom format of the last call writes: the arguments of the
\* record or nothing
FormatText ==
    IF last.ret.config.custom_format.writes THEN last.ret.record.args ELSE <<>>

C27_LogDrainsWriter ==
    (last.op = "log" /\ last.ret.passed) =>
        /\ machine.panic = NoPanic
        /\ machine.self.len = 0
        /\ machine.self.last_newline_index = 0
        /\ Emitted(machine) = written
        /\ last.ret.config.custom_format.some => Emitted(machine) = FormatText
        /\ flushes = 1

C27_Witness ==
    /\ last.op = "log"
    /\ last.ret.passed
    /\ last.ret.result = "Err"
    /\ last.ret.config.custom_format.writes
    /\ Len(last.ret.record.args) > LOGGING_MSG_MAX_LEN
    /\ Len(machine.sink) >= 2
    /\ Emitted(machine) = last.ret.record.args
    /\ machine.self.len = 0

----------------------------------------------------------------------------
\* the record written in one piece: a writer of the same identity takes the
\* whole byte stream in a single write_str and is flushed
OneWrite(m, s) ==
    flush(write_str(Fresh(m.self.buf_id, m.self.priority, m.self.tag), s).m)

\* C31: fragmentation independence.  The messages of a record, written in
\* any fragments and flushed once, are those of the same byte stream written
\* in one piece, with the same boundaries; so are the messages a flush would
\* give after any number of the fragments, whatever the buffer holds then
\* (a buffer filled exactly included).
C31_FragmentationIndependence ==
    /\ RecordFlushed => machine.sink = OneWrite(machine, written).sink
    /\ flushes = 0 => flush(machine).sink = OneWrite(machine, written).sink

C31_Witness ==
    /\ RecordFlushed
    /\ Len(written) > MaxFrag
    /\ HasByte(written, NL)
    /\ last.pre.self.len = LOGGING_MSG_MAX_LEN
    /\ Len(machine.sink) >= 2
    /\ machine.sink = OneWrite(machine, written).sink

\* the number of bytes of the stream taken by the first k messages of a sink
EndOffset(sink, k) == Len(Concat(Bodies(SubSeq(sink, 1, k))))

\* a message of the stream that ends at byte p is full, or is cut just
\* before a newline: the byte that follows it in the stream is a newline
FullOrCutBeforeNewline(body, p) ==
    \/ Len(body) = LOGGING_MSG_MAX_LEN
    \/ (p < Len(written) /\ written[p + 1] = NL)

\* C32: every message emitted by the overflow path of write_str has a body
\* of exactly capacity bytes or is followed in the byte stream by a newline.
\* This holds of the message of every overflowing pass, and so of every
\* message of a writer that was never flushed: a shorter message cut inside
\* a line comes from the explicit flush only.
C32_OverflowCutsAtNewline ==
    /\ \A k \in OverflowPasses :
          /\ Len(last.iters[k].after.sink) = Len(last.iters[k].full.sink) + 1
          /\ FullOrCutBeforeNewline(LastBody(last.iters[k].after),
                                    Len(Emitted(last.iters[k].after)))
          /\ Len(LastBody(last.iters[k].after)) < LOGGING_MSG_MAX_LEN =>
                last.iters[k].after.self.buffer[0] = NL
    /\ flushes = 0 =>
          \A k \in 1..Len(machine.sink) :
              FullOrCutBeforeNewline(machine.sink[k].msg, EndOffset(machine.sink, k))

C32_Witness ==
    /\ last.op = "write_str"
    /\ flushes = 0
    /\ OverflowPasses # {}
    /\ Len(machine.sink) = 2
    /\ Len(machine.sink[1].msg) < LOGGING_MSG_MAX_LEN
    /\ written[Len(machine.sink[1].msg) + 1] = NL
    /\ Len(machine.sink[2].msg) = LOGGING_MSG_MAX_LEN

\* ceil(n / capacity)
CeilOverCapacity(n) == (n + LOGGING_MSG_MAX_LEN - 1) \div LOGGING_MSG_MAX_LEN

\* C33: a newline-free input of n > 0 bytes, written in any fragments to a
\* fresh writer and flushed, gives exactly ceil(n / capacity) messages, each
\* of capacity bytes except the last, which has the remaining bytes.
C33_MessageCount ==
    (RecordFlushed /\ written # <<>> /\ ~HasByte(written, NL)) =>
        LET n == Len(written)
            count == CeilOverCapacity(n)
        IN  /\ Len(machine.sink) = count
            /\ \A k \in 1..(count - 1) :
                  Len(machine.sink[k].msg) = LOGGING_MSG_MAX_LEN
            /\ Len(machine.sink[count].msg) = n - LOGGING_MSG_MAX_LEN * (count - 1)

C33_Witness ==
    /\ RecordFlushed
    /\ ~HasByte(written, NL)
    /\ Len(written) = MaxTotal
    /\ Len(machine.sink) = CeilOverCapacity(MaxTotal)
    /\ Len(machine.sink) >= 2
    /\ Len(machine.sink[1].msg) = LOGGING_MSG_MAX_LEN
    /\ Len(LastBody(machine)) = MaxTotal - LOGGING_MSG_MAX_LEN * (Len(machine.sink) - 1)

\* every thread has returned from init_once
AllReturned == \A t \in ThreadId : threads[t].pc = "returned"

\* the threads were given levels that differ from one another
DifferentLevels ==
    \A t, u \in ThreadId :
        t # u => threads[t].config.log_level # threads[u].config.log_level

\* C34 as claimed: for every interleaving of init_once calls made at once by
\* threads with different levels, once all calls have returned the global
\* max level is the level of the Config held by the registered global logger.
C34_Claimed ==
    (AllReturned /\ DifferentLevels) =>
        /\ global.logger = "Android"
        /\ global.android_logger.some
        /\ global.android_logger.config.log_level = SomeLevel(global.max_level)

\* the process-wide state the last call of init_once or of log found
GlobalBefore == last.ret.before

\* C35: the Config of the global logger is fixed by the first call, of log
\* or of init_once, that initializes the global instance, and never changes
\* afterwards.  A log that finds no instance stores a logger with the
\* default Config; an init_once(config) that comes later registers this
\* logger, drops its own config, and uses only the level of its config
\* (config.log_level) to set the global max level.
C35_ConfigFixedByFirstUse ==
    (last.op \in {"init_once", "global_log"}) =>
        /\ global.android_logger.some
        /\ GlobalBefore.android_logger.some =>
              global.android_logger = GlobalBefore.android_logger
        /\ (last.op = "global_log" /\ ~GlobalBefore.android_logger.some) =>
              global.android_logger = SomeLogger(DefaultConfig)
        /\ (last.op = "init_once" /\ ~GlobalBefore.android_logger.some) =>
              global.android_logger = SomeLogger(last.arg)
        /\ (/\ last.op = "init_once"
            /\ GlobalBefore.android_logger = SomeLogger(DefaultConfig)
            /\ GlobalBefore.logger = "None") =>
              /\ global.logger = "Android"
              /\ global.android_logger = SomeLogger(DefaultConfig)
              /\ global.max_level = IF last.arg.log_level.some
                                    THEN last.arg.log_level.value
                                    ELSE GlobalBefore.max_level

C35_Witness ==
    /\ last.op = "init_once"
    /\ GlobalBefore.android_logger = SomeLogger(DefaultConfig)
    /\ GlobalBefore.logger = "None"
    /\ GlobalBefore.max_level = "Off"
    /\ last.arg.log_level = SomeLevel("Trace")
    /\ last.arg # DefaultConfig
    /\ global.logger = "Android"
    /\ global.android_logger.config = DefaultConfig
    /\ global.max_level = "Trace"

\* the last call was log for a record the logger rejects: its level is not
\* enabled, or the filter of the config does not match it
RejectedRecord ==
    /\ last.op = "log"
    /\ \/ last.ret.record.level \notin AtOrAbove(Threshold(last.ret.config))
       \/ /\ last.ret.config.filter.some
          /\ last.ret.record.level \notin AtOrAbove(last.ret.config.filter.value)

C37_CopyBytesToStart ==
    last.op = "copy_bytes_to_start" =>
        LET old == last.pre.self.buffer
            index == last.arg.index
            n == last.arg.len
        IN  /\ \A k \in 0..(n - 1) : machine.self.buffer[k] = old[index + k]
            /\ \A k \in n..LOGGING_MSG_MAX_LEN : machine.self.buffer[k] = old[k]
            /\ (index = 0 \/ n = 0) => machine.self.buffer = old
            /\ machine = [last.pre EXCEPT !.self.buffer = machine.self.buffer]

C37_Witness ==
    /\ last.op = "copy_bytes_to_start"
    /\ last.arg.index > 0
    /\ last.arg.index < last.arg.len
    /\ Cardinality({last.pre.self.buffer[k] :
                       k \in 0..(last.arg.index + last.arg.len - 1)})
         = last.arg.index + last.arg.len
    /\ machine.self.buffer[0] = last.pre.self.buffer[last.arg.index]
    /\ machine.self.buffer[last.arg.len - 1]
         = last.pre.self.buffer[last.arg.index + last.arg.len - 1]

====
